---- MODULE Spec2Model ----
(***************************************************************************)
(* rstd::hash_map<T> (src/hash_map.h): a fixed-bucket-count, separate-     *)
(* chaining map from int32_t keys to heap-allocated values.                *)
(*                                                                         *)
(* The heap is modelled explicitly.  Releasing a node cell leaves pointers  *)
(* to it where they are, and `new` may hand out any cell that is not live, *)
(* so a pointer left behind to a released node can later alias a node      *)
(* allocated by someone else.  A T object is allocated with its node       *)
(* (new T() is an argument of every node construction) and released by the *)
(* node's destructor only, so it is stored in the node's cell under        *)
(* dataPointer.                                                            *)
(*                                                                         *)
(* An operation that dereferences a released node, deletes one twice, or   *)
(* indexes a null bucket table has undefined behaviour.  Such a step sets  *)
(* `ub` and nondeterministically either stops where it is (a crash) or     *)
(* carries on, reading released memory as RawCell; nothing is explored     *)
(* past it.                                                                *)
(*                                                                         *)
(* A bucket table has exactly one owner from `new[]` to `delete[]` (swap    *)
(* exchanges the owners' pointers), so _heads[m] is modelled by the array   *)
(* it points to, and nullptr by the empty sequence.                        *)
(*                                                                         *)
(* A uint32_t / int32_t word w is represented by the integer in            *)
(* -2^31 .. 2^31-1 with the same 32-bit pattern.                           *)
(***************************************************************************)
EXTENDS Integers, Sequences, FiniteSets, TLC

(* ------------------------------ bounds -------------------------------- *)

\* Number of node cells of the heap.
MaxNodes == 3

\* operator[] inserts only while _elementCount is below this cap.
MaxCount == 2

\* The callers make at most this many calls.
MaxOps == 5

\* The hash_map objects of the program.
Maps == {"A", "B"}

\* The local `temp` of copy-assignment is an object too.
Objs == Maps \cup {"temp"}

\* Keys the callers use.
Keys == {-1, 1}

\* Values of T the callers write; T() is DefaultT.
Vals == {0, 1}

\* Capacities the callers construct with.
StorageSizes == {2, 3}

\* Capacities the callers request where only the rounding is of interest: the
\* small ones, the spec's examples, and the ends of the 32-bit range (as words).
Requests ==
  (0 .. 33) \cup {255, 256, 257, 300, 512, 513}
    \cup {1073741823, 1073741824, 1073741825, 2147483647,
          (-2147483647) - 1, -2147483647, -2, -1}

\* A bucket table of more than this many slots is not allocated.
MaxTable == 512

DefaultT == 0

NoMap == "-"

(* --------------------------- 32-bit words ----------------------------- *)

MaxInt32 == 2147483647

MinInt32 == (-MaxInt32) - 1

\* Bits 0..30 of a word, as a natural number.
Low31(x) == IF x < 0 THEN x - MinInt32 ELSE x

\* The word with bit 31 = b31 and bits 0..30 = low.
Word(b31, low) == IF b31 THEN low + MinInt32 ELSE low

RECURSIVE andNat(_, _)
andNat(a, b) ==
  IF a = 0 \/ b = 0 THEN 0
  ELSE (a % 2) * (b % 2) + 2 * andNat(a \div 2, b \div 2)

RECURSIVE orNat(_, _)
orNat(a, b) ==
  IF a = 0 THEN b
  ELSE IF b = 0 THEN a
  ELSE (IF a % 2 = 1 \/ b % 2 = 1 THEN 1 ELSE 0) + 2 * orNat(a \div 2, b \div 2)

\* x & y on 32-bit words.
BitAnd32(x, y) == Word(x < 0 /\ y < 0, andNat(Low31(x), Low31(y)))

\* x | y on 32-bit words.
BitOr32(x, y) == Word(x < 0 \/ y < 0, orNat(Low31(x), Low31(y)))

\* x >> k on a uint32_t word, 1 <= k <= 31.
Shr32(x, k) ==
  IF x >= 0 THEN x \div (2 ^ k)
  ELSE (Low31(x) \div (2 ^ k)) + 2 ^ (31 - k)

\* x + 1 and x - 1 on a uint32_t word (wrapping).
Inc32(x) == IF x = MaxInt32 THEN MinInt32 ELSE x + 1

Dec32(x) == IF x = MinInt32 THEN MaxInt32 ELSE x - 1

(* ------------------------------ state --------------------------------- *)

VARIABLES
  life,           \* life[m]: "live", or "none" (no object in the storage of m)
  _hashIndices,   \* _hashIndices[m]
  _elementCount,  \* _elementCount[m]
  _heads,         \* _heads[m]: the bucket table, <<>> = nullptr
  nodes,          \* heap: nodes[c] = hash_map_ll_node cell
  ub,             \* an operation had undefined behaviour
  lastOp,         \* the operation of the last step (history)
  ops,            \* the number of calls made
  copyOf,         \* copyOf[m]: the map that held keys when m was copied from it (history)
  leaked          \* the number of T objects no node owns and nothing will release

vars ==
  <<life, _hashIndices, _elementCount, _heads, nodes, ub, lastOp, ops, copyOf,
    leaked>>

Cells == 1 .. MaxNodes

\* hash_map_ll_node( int32_t rawkey, hash_map_ll_node* parent, T* data )
hash_map_ll_node(rawkey, parent, data) ==
  [live |-> TRUE, rawKey |-> rawkey, dataPointer |-> data,
   parentNode |-> parent, childNode |-> 0]

\* A cell of memory that is not allocated.
RawCell ==
  [live |-> FALSE, rawKey |-> 0, dataPointer |-> DefaultT,
   parentNode |-> 0, childNode |-> 0]

nullptr == <<>>

\* The program state as one record, for the operators below.
Cur ==
  [life |-> life, _hashIndices |-> _hashIndices, _elementCount |-> _elementCount,
   _heads |-> _heads, nodes |-> nodes]

\* The cells that are not allocated.
FreeCells(nd) == {c \in Cells : ~nd[c].live}

\* The cells some bucket slot or some live node points to.
Referenced(s) ==
  {c \in Cells :
     \/ \E m \in Objs : \E i \in 1 .. Len(s._heads[m]) : s._heads[m][i] = c
     \/ \E n \in Cells : s.nodes[n].live /\ c \in {s.nodes[n].childNode, s.nodes[n].parentNode}}

\* The cells `new` can return: any free cell a pointer was left behind to, and
\* of the free cells nothing points to (one is as good as another) the first.
NewCells(s) ==
  LET free == FreeCells(s.nodes)
      plain == free \ Referenced(s)
  IN (free \cap Referenced(s)) \cup {c \in plain : \A d \in plain : c <= d}

\* Outcomes of an operation: the state it leaves, the node whose value it
\* returns a reference to (0: none), and whether it had undefined behaviour.
Done(s, ret) == [st |-> s, ret |-> ret, ub |-> FALSE]

Crash(s) == [st |-> s, ret |-> 0, ub |-> TRUE]

\* `outs` are the outcomes computed on the memory contents as they are; if the
\* operation touched released memory (bad) they are undefined behaviour, and
\* the operation may as well have stopped at the start.
WithUB(s, bad, outs) ==
  IF bad THEN {Crash(s)} \cup {[o EXCEPT !.ub = TRUE] : o \in outs}
  ELSE outs

(* ------------------------- hashing, bucket table ---------------------- *)

\* The rounding without the `storageSize - 1` of line 112.
RoundWithoutDecrement(storageSize) ==
  LET h0 == storageSize
      h1 == BitOr32(h0, Shr32(h0, 1))
      h2 == BitOr32(h1, Shr32(h1, 2))
      h3 == BitOr32(h2, Shr32(h2, 4))
      h4 == BitOr32(h3, Shr32(h3, 8))
      h5 == BitOr32(h4, Shr32(h4, 16))
      h6 == Inc32(h5)
  IN IF h6 = 0 THEN 256 ELSE h6

\* hash_map( uint32_t storageSize ): the rounding of lines 112-122.
RoundStorageSize(storageSize) ==
  LET h0 == Dec32(storageSize)
      h1 == BitOr32(h0, Shr32(h0, 1))
      h2 == BitOr32(h1, Shr32(h1, 2))
      h3 == BitOr32(h2, Shr32(h2, 4))
      h4 == BitOr32(h3, Shr32(h3, 8))
      h5 == BitOr32(h4, Shr32(h4, 16))
      h6 == Inc32(h5)
  IN IF h6 = 0 THEN 256 ELSE h6

\* uint32_t hashThis( int32_t rawKey )
hashThis(s, m, rawKey) == BitAnd32(rawKey, Dec32(s._hashIndices[m]))

\* _heads[i] is an element of the array _heads points to.
InTable(s, m, i) ==
  /\ s._heads[m] # nullptr
  /\ i >= 0
  /\ i < Len(s._heads[m])

\* _heads[i]
HeadAt(s, m, i) == s._heads[m][i + 1]

\* _heads[i] = c
SetHead(s, m, i, c) == [s EXCEPT !._heads[m][i + 1] = c]

\* memsetHeads(): every slot of the table becomes nullptr. With _heads null
\* and _hashIndices 0 (a moved-from map) the memset covers 0 bytes.
memsetHeads(s, m) ==
  [s EXCEPT !._heads[m] = [i \in 1 .. Len(s._heads[m]) |-> 0]]

(* ------------------------------ nodes --------------------------------- *)

\* delete c: ~hash_map_ll_node() releases the value, deletes childNode (the
\* whole tail, recursively) and then the cell itself. Deleting a released
\* cell is a double free.
RECURSIVE deleteNode(_, _, _)
deleteNode(nd, c, fuel) ==
  IF c = 0 THEN [nd |-> nd, ub |-> FALSE]
  ELSE IF fuel = 0 THEN [nd |-> nd, ub |-> TRUE]
  ELSE LET r == deleteNode(nd, nd[c].childNode, fuel - 1)
       IN [nd |-> [r.nd EXCEPT ![c] = RawCell],
           ub |-> r.ub \/ ~nd[c].live]

\* The do/while of operator[]: the node holding rawKey (hit), else the tail
\* to append to. hang: the walk never ends.
RECURSIVE indexWalk(_, _, _, _)
indexWalk(nd, curNode, rawKey, fuel) ==
  IF fuel = 0 THEN [hit |-> 0, tail |-> 0, ub |-> TRUE, hang |-> TRUE]
  ELSE IF nd[curNode].rawKey = rawKey
    THEN [hit |-> curNode, tail |-> 0, ub |-> ~nd[curNode].live, hang |-> FALSE]
  ELSE IF nd[curNode].childNode # 0
    THEN LET r == indexWalk(nd, nd[curNode].childNode, rawKey, fuel - 1)
         IN [r EXCEPT !.ub = r.ub \/ ~nd[curNode].live]
  ELSE [hit |-> 0, tail |-> curNode, ub |-> ~nd[curNode].live, hang |-> FALSE]

\* T& operator[]( int32_t rawKey )
OperatorIndex(s, m, rawKey) ==
  LET hashedKey == hashThis(s, m, rawKey)
      canGrow == s._elementCount[m] < MaxCount
      grown == [s EXCEPT !._elementCount[m] = Inc32(s._elementCount[m])]
  IN
  IF ~InTable(s, m, hashedKey) THEN {Crash(s)}
  ELSE LET curNode == HeadAt(s, m, hashedKey) IN
    IF curNode = 0
    THEN \* First record
      {Done([SetHead(grown, m, hashedKey, c) EXCEPT
               !.nodes[c] = hash_map_ll_node(rawKey, 0, DefaultT)], c)
         : c \in IF canGrow THEN NewCells(s) ELSE {}}
    ELSE
      LET w == indexWalk(s.nodes, curNode, rawKey, MaxNodes + 1) IN
      IF w.hang THEN {Crash(s)}
      ELSE IF w.hit # 0 THEN WithUB(s, w.ub, {Done(s, w.hit)})
      ELSE WithUB(s, w.ub,
        {Done([grown EXCEPT
                 !.nodes = [[s.nodes EXCEPT
                               ![c] = hash_map_ll_node(rawKey, w.tail, DefaultT)]
                            EXCEPT ![w.tail].childNode = c]], c)
           : c \in IF canGrow THEN NewCells(s) ELSE {}})

\* map[rawKey] = v: operator[] and a write through the reference it returns.
AssignThrough(s, m, rawKey, v) ==
  UNION {
    IF o.ub THEN {o}
    ELSE WithUB(s, ~o.st.nodes[o.ret].live,
                {[o EXCEPT !.st.nodes[o.ret].dataPointer = v]})
    : o \in OperatorIndex(s, m, rawKey) }

\* The do/while of erase(): the node holding rawKey, or 0.
RECURSIVE eraseWalk(_, _, _, _)
eraseWalk(nd, curNode, rawKey, fuel) ==
  IF fuel = 0 THEN [hit |-> 0, ub |-> TRUE, hang |-> TRUE]
  ELSE IF nd[curNode].rawKey = rawKey
    THEN [hit |-> curNode, ub |-> ~nd[curNode].live, hang |-> FALSE]
  ELSE IF nd[curNode].childNode = 0
    THEN [hit |-> 0, ub |-> ~nd[curNode].live, hang |-> FALSE]
  ELSE LET r == eraseWalk(nd, nd[curNode].childNode, rawKey, fuel - 1)
       IN [r EXCEPT !.ub = r.ub \/ ~nd[curNode].live]

\* void erase( int32_t rawKey )
Erase(s, m, rawKey) ==
  LET hashedKey == hashThis(s, m, rawKey) IN
  IF ~InTable(s, m, hashedKey) THEN {Crash(s)}
  ELSE LET head == HeadAt(s, m, hashedKey) IN
    IF head = 0 THEN {Done(s, 0)}
    ELSE
      LET w == eraseWalk(s.nodes, head, rawKey, MaxNodes + 1) IN
      IF w.hang THEN {Crash(s)}
      ELSE IF w.hit = 0 THEN WithUB(s, w.ub, {Done(s, 0)})
      ELSE
        LET curNode == w.hit
            parent == s.nodes[curNode].parentNode
            child == s.nodes[curNode].childNode
            s1 == IF parent = 0
                  THEN SetHead(s, m, hashedKey, child)
                  ELSE [s EXCEPT !.nodes[parent].childNode = child]
            badParent == parent # 0 /\ ~s.nodes[parent].live
            d == deleteNode(s1.nodes, curNode, MaxNodes + 1)
        IN WithUB(s, w.ub \/ badParent \/ d.ub,
                  {Done([s1 EXCEPT !.nodes = d.nd], 0)})

\* The while loop of clear() on one bucket: each step reads toDelete->childNode
\* and deletes toDelete.
RECURSIVE clearChain(_, _, _)
clearChain(nd, toDelete, fuel) ==
  IF toDelete = 0 THEN [nd |-> nd, ub |-> FALSE]
  ELSE IF fuel = 0 THEN [nd |-> nd, ub |-> TRUE]
  ELSE LET nextToDelete == nd[toDelete].childNode
           d == deleteNode(nd, toDelete, MaxNodes + 1)
           r == clearChain(d.nd, nextToDelete, fuel - 1)
       IN [nd |-> r.nd, ub |-> d.ub \/ r.ub \/ ~nd[toDelete].live]

\* The for loop of clear() over buckets i .. _hashIndices - 1.
RECURSIVE clearBuckets(_, _, _, _)
clearBuckets(s, m, nd, i) ==
  IF i >= s._hashIndices[m] THEN [nd |-> nd, ub |-> FALSE]
  ELSE IF ~InTable(s, m, i) THEN [nd |-> nd, ub |-> TRUE]
  ELSE LET c == clearChain(nd, HeadAt(s, m, i), MaxNodes + 1)
           r == clearBuckets(s, m, c.nd, i + 1)
       IN [nd |-> r.nd, ub |-> c.ub \/ r.ub]

\* void clear()
Clear(s, m) ==
  LET c == clearBuckets(s, m, s.nodes, 0)
  IN WithUB(s, c.ub, {Done(memsetHeads([s EXCEPT !.nodes = c.nd], m), 0)})

(* ------------------- construction, copy, move, swap ------------------- *)

\* The member initialisers of lines 97-103, on storage m.
DefaultMembers(s, m) ==
  [s EXCEPT !.life[m] = "live", !._hashIndices[m] = 0,
            !._elementCount[m] = 0, !._heads[m] = nullptr]

\* hash_map( uint32_t storageSize = 256 )
hash_map(s, m, storageSize) ==
  LET n == RoundStorageSize(storageSize)
      s0 == DefaultMembers(s, m)
  IN {Done([s0 EXCEPT !._hashIndices[m] = n,
                      !._heads[m] = [i \in 1 .. n |-> 0]], 0)}

\* The orders in which `new` can hand out the free cells S: the cells of R (a
\* pointer was left behind to them) anywhere, the others in ascending order.
RECURSIVE Orders(_, _)
Orders(S, R) ==
  IF S = {} THEN {<<>>}
  ELSE UNION {{<<c>> \o r : r \in Orders(S \ {c}, R)}
                : c \in {x \in S : x \in R \/ \A y \in S \ R : x <= y}}

\* new hash_map_ll_node( other, parent ): the copy of `other` and of its whole
\* tail, built in the cells `new` returns (cells, in order). fail: no cell left.
RECURSIVE copyNode(_, _, _, _, _)
copyNode(nd, other, parent, cells, fuel) ==
  IF cells = <<>> \/ fuel = 0
  THEN [nd |-> nd, node |-> 0, cells |-> cells, ub |-> fuel = 0, fail |-> TRUE]
  ELSE
    LET this == cells[1]
        nd1 == [nd EXCEPT ![this] =
                  [live |-> TRUE, rawKey |-> nd[other].rawKey,
                   dataPointer |-> nd[other].dataPointer,
                   parentNode |-> parent, childNode |-> 0]]
        otherChild == nd1[other].childNode
        bad == ~nd[other].live
    IN IF otherChild = 0
       THEN [nd |-> nd1, node |-> this, cells |-> Tail(cells), ub |-> bad,
             fail |-> FALSE]
       ELSE LET r == copyNode(nd1, otherChild, this, Tail(cells), fuel - 1)
            IN [nd |-> [r.nd EXCEPT ![this].childNode = r.node], node |-> this,
                cells |-> r.cells, ub |-> r.ub \/ bad, fail |-> r.fail]

\* The for loop of the copy constructor over buckets i .. _hashIndices - 1.
\* crash: other._heads[i] is not an element of other's table.
RECURSIVE copyBuckets(_, _, _, _, _)
copyBuckets(s, m, other, i, cells) ==
  IF i >= s._hashIndices[m]
  THEN [st |-> s, ub |-> FALSE, fail |-> FALSE, crash |-> FALSE]
  ELSE IF ~InTable(s, other, i)
  THEN [st |-> s, ub |-> TRUE, fail |-> FALSE, crash |-> TRUE]
  ELSE IF HeadAt(s, other, i) = 0 THEN copyBuckets(s, m, other, i + 1, cells)
  ELSE LET c == copyNode(s.nodes, HeadAt(s, other, i), 0, cells, MaxNodes + 1)
           s1 == SetHead([s EXCEPT !.nodes = c.nd], m, i, c.node)
       IN IF c.fail THEN [st |-> s, ub |-> c.ub, fail |-> TRUE, crash |-> FALSE]
          ELSE LET r == copyBuckets(s1, m, other, i + 1, c.cells)
               IN [r EXCEPT !.ub = r.ub \/ c.ub]

\* hash_map( const hash_map& other ) : hash_map( other._hashIndices )
CopyConstructor(s, m, other) ==
  UNION {
    UNION {
      LET r == copyBuckets(o.st, m, other, 0, cells)
      IN IF r.crash THEN {Crash(s)}
         ELSE IF r.fail THEN {}
         ELSE WithUB(s, r.ub, {Done(r.st, 0)})
      : cells \in Orders(FreeCells(s.nodes), Referenced(s)) }
    : o \in hash_map(s, m, s._hashIndices[other]) }

\* swap without the exchange of _elementCount.
swapWithoutCount(s, map1, map2) ==
  [s EXCEPT !._hashIndices[map1] = s._hashIndices[map2],
            !._hashIndices[map2] = s._hashIndices[map1],
            !._heads[map1] = s._heads[map2],
            !._heads[map2] = s._heads[map1]]

\* void swap( hash_map& map1, hash_map& map2 )
swap(s, map1, map2) ==
  [s EXCEPT !._hashIndices[map1] = s._hashIndices[map2],
            !._hashIndices[map2] = s._hashIndices[map1],
            !._elementCount[map1] = s._elementCount[map2],
            !._elementCount[map2] = s._elementCount[map1],
            !._heads[map1] = s._heads[map2],
            !._heads[map2] = s._heads[map1]]

\* hash_map( hash_map&& other ) noexcept
MoveConstructor(s, m, other) == {Done(swap(DefaultMembers(s, m), m, other), 0)}

\* hash_map& operator=( hash_map&& other ) noexcept
MoveAssign(s, m, other) == {Done(swap(s, m, other), 0)}

\* virtual ~hash_map(): clear(), delete[] _heads; the storage of m is gone.
Destructor(s, m) ==
  LET gone(x) ==
        [x EXCEPT !.life[m] = "none", !._hashIndices[m] = 0,
                  !._elementCount[m] = 0, !._heads[m] = nullptr]
  IN {[o EXCEPT !.st = gone(o.st)] : o \in Clear(s, m)}

\* hash_map& operator=( const hash_map& other ): hash_map temp( other ), the
\* swap, and temp's destruction at the end of the block; a step with undefined
\* behaviour ends the call.
CopyAssign(s, m, other) ==
  IF m = other THEN {Done(s, 0)}
  ELSE UNION {
         IF o.ub THEN {o}
         ELSE {[d EXCEPT !.st.life["temp"] = "none"]
                 : d \in Destructor(swap(o.st, m, "temp"), "temp")}
         : o \in CopyConstructor(s, "temp", other) }

\* hash_map& operator=( const hash_map& other ) when an allocation of
\* `hash_map temp( other )` throws std::bad_alloc: the allocation of the table
\* (nothing was built), or of the node after the first n (or of its value).
\* The node constructors that have not completed (the new node's ancestors in
\* its chain) have their memory released by their new-expressions, but their
\* destructors do not run, so the values they allocated stay behind (lost).
\* The delegated-to constructor had completed, so ~hash_map() runs on temp
\* with the chains that were completed; the swap is not reached.
CopyAssignThrows(s, m, other) ==
  IF m = other THEN {}
  ELSE
    {[st |-> s, ret |-> 0, ub |-> FALSE, lost |-> 0]} \cup
    UNION {
      UNION {
        UNION {
          LET r == copyBuckets(o.st, "temp", other, 0, SubSeq(cells, 1, n))
              lost == n - Cardinality({c \in Cells :
                                         r.st.nodes[c].live /\ ~s.nodes[c].live})
          IN IF r.crash THEN {[st |-> s, ret |-> 0, ub |-> TRUE, lost |-> 0]}
             ELSE IF ~r.fail THEN {}
             ELSE {[st |-> [d.st EXCEPT !.life["temp"] = "none"], ret |-> 0,
                    ub |-> d.ub \/ r.ub, lost |-> lost]
                     : d \in Destructor(r.st, "temp")}
          : n \in 0 .. Len(cells) }
        : cells \in Orders(FreeCells(s.nodes), Referenced(s)) }
      : o \in hash_map(s, "temp", s._hashIndices[other]) }

(* ------------------------------ queries ------------------------------- *)

\* bool empty()
empty(s, m) == s._elementCount[m] = 0

\* uint32_t size()
size(s, m) == s._elementCount[m]

\* uint32_t bucketCount()
bucketCount(s, m) == s._hashIndices[m]

\* The while loop of bucketDensity().
RECURSIVE densityWalk(_, _, _)
densityWalk(nd, curNode, fuel) ==
  IF curNode = 0 \/ fuel = 0 THEN 0
  ELSE 1 + densityWalk(nd, nd[curNode].childNode, fuel - 1)

\* uint32_t bucketDensity( int32_t rawKey ); -1: _heads[hashThis(rawKey)] is
\* not an element of the table.
bucketDensity(s, m, rawKey) ==
  IF ~InTable(s, m, hashThis(s, m, rawKey)) THEN -1
  ELSE densityWalk(s.nodes, HeadAt(s, m, hashThis(s, m, rawKey)), MaxNodes + 1)

(* ----------------------- what a map holds ----------------------------- *)

\* The live nodes of the chain that starts at c, in chain order.
RECURSIVE liveChain(_, _, _)
liveChain(nd, c, fuel) ==
  IF c = 0 \/ fuel = 0 THEN <<>>
  ELSE IF ~nd[c].live THEN <<>>
  ELSE <<c>> \o liveChain(nd, nd[c].childNode, fuel - 1)

\* The bucket indices of m's table.
Buckets(s, m) == 0 .. (Len(s._heads[m]) - 1)

\* The live nodes of bucket i of m, in chain order.
ChainOf(s, m, i) == liveChain(s.nodes, HeadAt(s, m, i), MaxNodes + 1)

\* The live nodes on the chains of m.
StoredCells(s, m) ==
  UNION {{ChainOf(s, m, i)[j] : j \in 1 .. Len(ChainOf(s, m, i))} : i \in Buckets(s, m)}

\* The live node that holds rawKey in its bucket of m; 0 if there is none.
NodeOf(s, m, rawKey) ==
  LET h == hashThis(s, m, rawKey) IN
  IF ~InTable(s, m, h) THEN 0
  ELSE LET ch == ChainOf(s, m, h)
           at == {j \in 1 .. Len(ch) : s.nodes[ch[j]].rawKey = rawKey}
       IN IF at = {} THEN 0 ELSE ch[CHOOSE j \in at : \A x \in at : j <= x]

\* The keys stored in m.
StoredKeys(s, m) == {k \in Keys : NodeOf(s, m, k) # 0}

\* The value stored under rawKey in m (DefaultT if rawKey is not stored).
ValueOf(s, m, rawKey) ==
  IF NodeOf(s, m, rawKey) = 0 THEN DefaultT
  ELSE s.nodes[NodeOf(s, m, rawKey)].dataPointer

(* ------------------------------ actions ------------------------------- *)

Blank ==
  [life |-> [m \in Objs |-> "none"], _hashIndices |-> [m \in Objs |-> 0],
   _elementCount |-> [m \in Objs |-> 0], _heads |-> [m \in Objs |-> nullptr],
   nodes |-> [c \in Cells |-> RawCell]]

\* The record of one call: the operation, its object m, its other operand o
\* and its key k (of a construction: its storageSize); of an erase also size(), the presence of k and the value
\* under k as they were before the call.
Call(op, m, o, k, ret) ==
  [op |-> op, m |-> m, o |-> o, k |-> k,
   size0 |-> IF op = "erase" THEN size(Cur, m) ELSE 0,
   had |-> op = "erase" /\ NodeOf(Cur, m, k) # 0,
   old |-> IF op = "erase" THEN ValueOf(Cur, m, k) ELSE DefaultT]

Becomes(out) ==
  LET r == out.st IN
  /\ life' = r.life
  /\ _hashIndices' = r._hashIndices
  /\ _elementCount' = r._elementCount
  /\ _heads' = r._heads
  /\ nodes' = r.nodes
  /\ ub' = out.ub
  /\ ops' = ops + 1
  /\ leaked' = leaked

Init ==
  \E storageSize \in StorageSizes :
    \E out \in hash_map(Blank, "A", storageSize) :
      /\ life = out.st.life
      /\ _hashIndices = out.st._hashIndices
      /\ _elementCount = out.st._elementCount
      /\ _heads = out.st._heads
      /\ nodes = out.st.nodes
      /\ ub = FALSE
      /\ ops = 0
      /\ leaked = 0
      /\ copyOf = [m \in Maps |-> NoMap]
      /\ lastOp = [op |-> "construct", m |-> "A", o |-> NoMap, k |-> storageSize,
                   size0 |-> 0, had |-> FALSE, old |-> DefaultT]

\* What copyOf[m] becomes when m is made a copy of o.
CopiedFrom(m, o) == IF StoredKeys(Cur, o) # {} THEN o ELSE NoMap

\* hash_map<T> m( storageSize );
Construct ==
  \E m \in Maps, storageSize \in StorageSizes :
    /\ ~ub /\ ops < MaxOps /\ life[m] # "live"
    /\ \E out \in hash_map(Cur, m, storageSize) :
         /\ Becomes(out) /\ lastOp' = Call("construct", m, NoMap, storageSize, out.ret)
         /\ copyOf' = [copyOf EXCEPT ![m] = NoMap]

\* hash_map<T> m( o );
CopyConstruct ==
  \E m \in Maps, o \in Maps :
    /\ ~ub /\ ops < MaxOps /\ life[m] # "live" /\ life[o] = "live"
    /\ \E out \in CopyConstructor(Cur, m, o) :
         /\ Becomes(out) /\ lastOp' = Call("copy", m, o, 0, out.ret)
         /\ copyOf' = [copyOf EXCEPT ![m] = CopiedFrom(m, o)]

\* hash_map<T> m( std::move( o ) );
MoveConstruct ==
  \E m \in Maps, o \in Maps :
    /\ ~ub /\ ops < MaxOps /\ life[m] # "live" /\ life[o] = "live"
    /\ \E out \in MoveConstructor(Cur, m, o) :
         /\ Becomes(out) /\ lastOp' = Call("move", m, o, 0, out.ret)
         /\ copyOf' = [copyOf EXCEPT ![m] = NoMap]

\* m = o;
CopyAssignment ==
  \E m \in Maps, o \in Maps :
    /\ ~ub /\ ops < MaxOps /\ life[m] = "live" /\ life[o] = "live"
    /\ \E out \in CopyAssign(Cur, m, o) :
         /\ Becomes(out) /\ lastOp' = Call("copyAssign", m, o, 0, out.ret)
         /\ copyOf' = [copyOf EXCEPT ![m] = IF m = o THEN @ ELSE CopiedFrom(m, o)]

\* m = std::move( o );
MoveAssignment ==
  \E m \in Maps, o \in Maps :
    /\ ~ub /\ ops < MaxOps /\ life[m] = "live" /\ life[o] = "live"
    /\ \E out \in MoveAssign(Cur, m, o) :
         /\ Becomes(out) /\ lastOp' = Call("moveAssign", m, o, 0, out.ret)
         /\ copyOf' = copyOf

\* swap( m, o );
Swap ==
  \E m \in Maps, o \in Maps :
    /\ ~ub /\ ops < MaxOps /\ m # o /\ life[m] = "live" /\ life[o] = "live"
    /\ Becomes(Done(swap(Cur, m, o), 0))
    /\ lastOp' = Call("swap", m, o, 0, 0)
    /\ copyOf' = copyOf

\* m goes out of scope.
Destroy ==
  \E m \in Maps :
    /\ ~ub /\ ops < MaxOps /\ life[m] = "live"
    /\ \E out \in Destructor(Cur, m) :
         /\ Becomes(out) /\ lastOp' = Call("destroy", m, NoMap, 0, out.ret)
         /\ copyOf' = [copyOf EXCEPT ![m] = NoMap]

\* m[k];
Index ==
  \E m \in Maps, k \in Keys :
    /\ ~ub /\ ops < MaxOps /\ life[m] = "live"
    /\ \E out \in OperatorIndex(Cur, m, k) :
         /\ Becomes(out) /\ lastOp' = Call("index", m, NoMap, k, out.ret)
         /\ copyOf' = copyOf

\* m[k] = v;
Assign ==
  \E m \in Maps, k \in Keys, v \in Vals :
    /\ ~ub /\ ops < MaxOps /\ life[m] = "live"
    /\ \E out \in AssignThrough(Cur, m, k, v) :
         /\ Becomes(out) /\ lastOp' = Call("assign", m, NoMap, k, out.ret)
         /\ copyOf' = copyOf

\* m.erase( k );
EraseKey ==
  \E m \in Maps, k \in Keys :
    /\ ~ub /\ ops < MaxOps /\ life[m] = "live"
    /\ \E out \in Erase(Cur, m, k) :
         /\ Becomes(out) /\ lastOp' = Call("erase", m, NoMap, k, out.ret)
         /\ copyOf' = copyOf

\* m.clear();
ClearAll ==
  \E m \in Maps :
    /\ ~ub /\ ops < MaxOps /\ life[m] = "live"
    /\ \E out \in Clear(Cur, m) :
         /\ Becomes(out) /\ lastOp' = Call("clear", m, NoMap, 0, out.ret)
         /\ copyOf' = copyOf

Next ==
  \/ Construct
  \/ CopyConstruct
  \/ MoveConstruct
  \/ CopyAssignment
  \/ MoveAssignment
  \/ Swap
  \/ Destroy
  \/ Index
  \/ Assign
  \/ EraseKey
  \/ ClearAll

Spec == Init /\ [][Next]_vars

\* One map, used through operator[], erase and clear only.
NextSingle ==
  \/ Index
  \/ Assign
  \/ EraseKey
  \/ ClearAll

SpecSingle == Init /\ [][NextSingle]_vars

\* m = o; where an allocation of the copy throws std::bad_alloc.
CopyAssignmentThrows ==
  \E m \in Maps, o \in Maps :
    /\ ~ub /\ ops < MaxOps /\ life[m] = "live" /\ life[o] = "live"
    /\ \E out \in CopyAssignThrows(Cur, m, o) :
         /\ life' = out.st.life
         /\ _hashIndices' = out.st._hashIndices
         /\ _elementCount' = out.st._elementCount
         /\ _heads' = out.st._heads
         /\ nodes' = out.st.nodes
         /\ ub' = out.ub
         /\ ops' = ops + 1
         /\ leaked' = leaked + out.lost
         /\ lastOp' = Call("copyAssignThrow", m, o, 0, out.ret)
         /\ copyOf' = copyOf

\* Two maps that are filled and copy-assigned, where the copy may run out of
\* memory.
NextAlloc ==
  \/ Construct
  \/ Index
  \/ Assign
  \/ CopyAssignment
  \/ CopyAssignmentThrows

SpecAlloc == Init /\ [][NextAlloc]_vars

\* hash_map<T> A( storageSize ); with any requested capacity whose table is
\* allocated.
InitRound ==
  \E storageSize \in Requests :
    /\ RoundStorageSize(storageSize) \in 1 .. MaxTable
    /\ \E out \in hash_map(Blank, "A", storageSize) :
         /\ life = out.st.life
         /\ _hashIndices = out.st._hashIndices
         /\ _elementCount = out.st._elementCount
         /\ _heads = out.st._heads
         /\ nodes = out.st.nodes
         /\ ub = FALSE
         /\ ops = 0
         /\ leaked = 0
         /\ copyOf = [m \in Maps |-> NoMap]
         /\ lastOp = [op |-> "construct", m |-> "A", o |-> NoMap, k |-> storageSize,
                      size0 |-> 0, had |-> FALSE, old |-> DefaultT]

\* hash_map<T> m( storageSize ); with any requested capacity whose table is
\* allocated.
ConstructRequested ==
  \E m \in Maps, storageSize \in Requests :
    /\ ~ub /\ ops < MaxOps /\ life[m] # "live"
    /\ RoundStorageSize(storageSize) \in 1 .. MaxTable
    /\ \E out \in hash_map(Cur, m, storageSize) :
         /\ Becomes(out) /\ lastOp' = Call("construct", m, NoMap, storageSize, out.ret)
         /\ copyOf' = [copyOf EXCEPT ![m] = NoMap]

\* Constructions only, with capacities over the whole 32-bit range.
SpecRound == InitRound /\ [][ConstructRequested]_vars

(* ------------------------------ claims -------------------------------- *)

\* The keys of the live nodes of bucket i of m, in chain order.
ChainKeys(s, m, i) ==
  [j \in 1 .. Len(ChainOf(s, m, i)) |-> s.nodes[ChainOf(s, m, i)[j]].rawKey]

\* What a caller can observe of m: bucketCount(), size(), the stored keys with
\* their values, and the chains.
View(s, m) ==
  [bucketCount |-> bucketCount(s, m),
   size |-> size(s, m),
   entries |-> [k \in Keys |-> <<NodeOf(s, m, k) # 0, ValueOf(s, m, k)>>],
   chains |-> [i \in Buckets(s, m) |-> ChainKeys(s, m, i)]]

\* n is a power of two, n >= 1.
IsPowerOfTwo(n) == n >= 1 /\ BitAnd32(n, n - 1) = 0

\* Every bucket m can index with a key of Keys is an element of its table.
Indexable(s, m) == \A k \in Keys : InTable(s, m, hashThis(s, m, k))

\* C1: erase(k) of a stored key is defined behaviour and removes only k: every
\* other key stored before is still stored afterwards, with the same value.
C1_EraseRemovesOnlyK ==
  [][(lastOp'.op = "erase" /\ lastOp'.had) =>
       /\ ~ub'
       /\ \A k2 \in StoredKeys(Cur, lastOp'.m) \ {lastOp'.k} :
            /\ NodeOf(Cur', lastOp'.m, k2) # 0
            /\ ValueOf(Cur', lastOp'.m, k2) = ValueOf(Cur, lastOp'.m, k2)]_vars

\* C2: size() is the number of live nodes on the chains of the map, and empty()
\* holds exactly when there is none.
C2_SizeCountsLiveNodes ==
  \A m \in Maps :
    (life[m] = "live" /\ ~ub) =>
      /\ size(Cur, m) = Cardinality(StoredCells(Cur, m))
      /\ empty(Cur, m) <=> StoredCells(Cur, m) = {}

\* C3: after clear(), empty() holds, size() is 0, bucketDensity(k) is 0 for
\* every key and every bucket slot is empty.
C3_ClearResetsFully ==
  [][lastOp'.op = "clear" =>
       /\ ~ub'
       /\ empty(Cur', lastOp'.m)
       /\ size(Cur', lastOp'.m) = 0
       /\ \A k \in Keys : bucketDensity(Cur', lastOp'.m, k) = 0
       /\ \A i \in Buckets(Cur', lastOp'.m) : HeadAt(Cur', lastOp'.m, i) = 0]_vars

\* C4: erase(k) of a key stored with a non-default value, then operator[](k):
\* k is stored with the default value, and size() is what it was before the
\* erase.
C4_EraseReinsertRoundTrip ==
  [][(/\ lastOp.op = "erase" /\ lastOp.had /\ lastOp.old # DefaultT
      /\ lastOp'.op = "index" /\ lastOp'.m = lastOp.m /\ lastOp'.k = lastOp.k) =>
       /\ ~ub'
       /\ NodeOf(Cur', lastOp'.m, lastOp'.k) # 0
       /\ ValueOf(Cur', lastOp'.m, lastOp'.k) = DefaultT
       /\ size(Cur', lastOp'.m) = lastOp.size0]_vars

\* C5: operator[](k) of a key that is not stored creates exactly one node, with
\* the default value, and adds 1 to size(); operator[](k) of a stored key
\* changes nothing: no node, no link, no value, not size().
C5_IndexIsIdempotent ==
  [][lastOp'.op = "index" =>
       /\ ~ub'
       /\ IF NodeOf(Cur, lastOp'.m, lastOp'.k) = 0
          THEN /\ NodeOf(Cur', lastOp'.m, lastOp'.k) # 0
               /\ ValueOf(Cur', lastOp'.m, lastOp'.k) = DefaultT
               /\ size(Cur', lastOp'.m) = size(Cur, lastOp'.m) + 1
               /\ Cardinality(StoredCells(Cur', lastOp'.m)) =
                    Cardinality(StoredCells(Cur, lastOp'.m)) + 1
          ELSE /\ nodes' = nodes
               /\ _heads' = _heads
               /\ _elementCount' = _elementCount]_vars

\* C6: right after m is copy-constructed or copy-assigned from a map o that
\* holds keys, m has o's bucketCount(), size() and empty(), every key of o with
\* an equal value and the same bucketDensity, and o is unchanged.
C6_CopyEqualsSource ==
  [][(/\ lastOp'.op \in {"copy", "copyAssign"} /\ lastOp'.m # lastOp'.o
      /\ StoredKeys(Cur, lastOp'.o) # {}) =>
       /\ ~ub'
       /\ bucketCount(Cur', lastOp'.m) = bucketCount(Cur, lastOp'.o)
       /\ size(Cur', lastOp'.m) = size(Cur, lastOp'.o)
       /\ empty(Cur', lastOp'.m) = empty(Cur, lastOp'.o)
       /\ \A k \in StoredKeys(Cur, lastOp'.o) :
            /\ NodeOf(Cur', lastOp'.m, k) # 0
            /\ ValueOf(Cur', lastOp'.m, k) = ValueOf(Cur, lastOp'.o, k)
            /\ bucketDensity(Cur', lastOp'.m, k) = bucketDensity(Cur, lastOp'.o, k)
       /\ View(Cur', lastOp'.o) = View(Cur, lastOp'.o)]_vars

\* m and x are a map and its copy, both alive.
CopyPair(m, x) ==
  /\ m # x
  /\ life[m] = "live" /\ life[x] = "live"
  /\ copyOf[m] = x \/ copyOf[x] = m

\* C7: a map and its copy share no node, and no operation on one of them
\* (operator[], a write through it, erase, clear, its destruction) changes
\* anything a caller can observe of the other.
C7_CopyIsIndependent ==
  [][\A m \in Maps :
       (/\ lastOp'.op \in {"index", "assign", "erase", "clear", "destroy"}
        /\ lastOp'.m \in Maps /\ CopyPair(m, lastOp'.m)) =>
         /\ StoredCells(Cur, m) \cap StoredCells(Cur, lastOp'.m) = {}
         /\ View(Cur', m) = View(Cur, m)]_vars

\* C8: a move construction, a move assignment or a swap gives m the
\* bucketCount(), the size() and every key -> value mapping o had, held by the
\* very nodes that held them, and allocates, copies and releases no node; a
\* swap gives o what m had as well.
C8_MoveSwapTransfersState ==
  [][lastOp'.op \in {"move", "moveAssign", "swap"} =>
       /\ ~ub'
       /\ bucketCount(Cur', lastOp'.m) = bucketCount(Cur, lastOp'.o)
       /\ size(Cur', lastOp'.m) = size(Cur, lastOp'.o)
       /\ View(Cur', lastOp'.m) = View(Cur, lastOp'.o)
       /\ \A k \in Keys : NodeOf(Cur', lastOp'.m, k) = NodeOf(Cur, lastOp'.o, k)
       /\ nodes' = nodes
       /\ lastOp'.op = "swap" =>
            /\ View(Cur', lastOp'.o) = View(Cur, lastOp'.m)
            /\ \A k \in Keys : NodeOf(Cur', lastOp'.o, k) = NodeOf(Cur, lastOp'.m, k)]_vars

\* C8 witness: a swap has just exchanged two maps that hold different keys,
\* have different sizes and different bucket counts.
C8_Witness ==
  /\ lastOp.op = "swap"
  /\ ~ub
  /\ StoredKeys(Cur, lastOp.m) # {}
  /\ StoredKeys(Cur, lastOp.o) # {}
  /\ StoredKeys(Cur, lastOp.m) # StoredKeys(Cur, lastOp.o)
  /\ size(Cur, lastOp.m) # size(Cur, lastOp.o)
  /\ bucketCount(Cur, lastOp.m) # bucketCount(Cur, lastOp.o)

\* C9: after a move out of o (a move construction, or a move assignment to
\* another map that held keys), o is empty and valid: size() is 0, empty()
\* holds, no key is stored, bucketDensity(k) is 0 for every key, and every
\* bucket o indexes is an element of its own table.
C9_MovedFromIsEmptyAndValid ==
  [][(/\ lastOp'.m # lastOp'.o
      /\ \/ lastOp'.op = "move"
         \/ lastOp'.op = "moveAssign" /\ StoredKeys(Cur, lastOp'.m) # {}) =>
       /\ size(Cur', lastOp'.o) = 0
       /\ empty(Cur', lastOp'.o)
       /\ StoredKeys(Cur', lastOp'.o) = {}
       /\ Indexable(Cur', lastOp'.o)
       /\ \A k \in Keys : bucketDensity(Cur', lastOp'.o, k) = 0]_vars

\* C10: every live map has a bucketCount() that is a power of two >= 1, and a
\* table of exactly bucketCount() slots; operator[], a write through it, erase
\* and clear leave bucketCount() as it is.
C10_BucketCountIsPowerOfTwo ==
  /\ [](\A m \in Maps :
          life[m] = "live" =>
            /\ IsPowerOfTwo(bucketCount(Cur, m))
            /\ Len(_heads[m]) = bucketCount(Cur, m))
  /\ [][lastOp'.op \in {"index", "assign", "erase", "clear"} =>
          bucketCount(Cur', lastOp'.m) = bucketCount(Cur, lastOp'.m)]_vars

\* 2^i for i in 0 .. 30.
PowersOfTwo == {2 ^ i : i \in 0 .. 30}

\* The smallest power of two >= r for a uint32_t word r, as a word; 256 for
\* r = 0 and for r > 2^31, where no power of two >= r fits in 32 bits.
SmallestPowerOfTwo(r) ==
  IF r = 0 \/ (r < 0 /\ r # MinInt32) THEN 256
  ELSE IF r = MinInt32 \/ r > 2 ^ 30 THEN MinInt32
  ELSE CHOOSE p \in PowersOfTwo : p >= r /\ \A q \in PowersOfTwo : q >= r => p <= q

\* C11: a map constructed with requested capacity r has bucketCount() = the
\* smallest power of two >= r (256 for r = 0 and r > 2^31), a table of
\* bucketCount() slots that are all empty, and size() = 0; and the rounding
\* gives that count for every request, also those whose table is too large to
\* allocate here.
C11_ConstructionRounding ==
  /\ \A r \in Requests : RoundStorageSize(r) = SmallestPowerOfTwo(r)
  /\ lastOp.op = "construct" =>
       /\ bucketCount(Cur, lastOp.m) = SmallestPowerOfTwo(lastOp.k)
       /\ Len(_heads[lastOp.m]) = bucketCount(Cur, lastOp.m)
       /\ \A i \in Buckets(Cur, lastOp.m) : HeadAt(Cur, lastOp.m, i) = 0
       /\ size(Cur, lastOp.m) = 0
       /\ empty(Cur, lastOp.m)

\* C11 witness: a construction with a request above 2^31 has given 256 buckets,
\* next to a map constructed with request 5 that has 8.
C11_Witness ==
  /\ lastOp.op = "construct"
  /\ lastOp.k < 0 /\ lastOp.k # MinInt32
  /\ bucketCount(Cur, lastOp.m) = 256
  /\ Len(_heads[lastOp.m]) = 256
  /\ \E m \in Maps : life[m] = "live" /\ bucketCount(Cur, m) = 8

\* C12: when an allocation fails while m = o builds its copy, m and o are
\* exactly what they were (bucketCount(), size(), keys, values, the very
\* nodes), the call has defined behaviour, and all of the partial copy is
\* released: every node of it exactly once, and no value of it is left behind;
\* m = m changes nothing.
C12_CopyAssignIsStrongExceptionSafe ==
  [][/\ lastOp'.op = "copyAssignThrow" =>
          /\ ~ub'
          /\ View(Cur', lastOp'.m) = View(Cur, lastOp'.m)
          /\ View(Cur', lastOp'.o) = View(Cur, lastOp'.o)
          /\ \A m \in Maps : \A k \in Keys : NodeOf(Cur', m, k) = NodeOf(Cur, m, k)
          /\ nodes' = nodes
          /\ life' = life
          /\ leaked' = leaked
     /\ (lastOp'.op = "copyAssign" /\ lastOp'.m = lastOp'.o) =>
          /\ ~ub'
          /\ Cur' = Cur]_vars

\* C13: erase(k) of a key that is not stored has defined behaviour and changes
\* nothing: no key, value, chain link, slot, size() or bucketCount().
C13_EraseAbsentIsNoOp ==
  [][(lastOp'.op = "erase" /\ ~lastOp'.had) =>
       /\ ~ub'
       /\ Cur' = Cur]_vars

\* The keys stored in m that hash to the bucket of rawKey.
KeysInBucketOf(s, m, rawKey) ==
  {k \in StoredKeys(s, m) : hashThis(s, m, k) = hashThis(s, m, rawKey)}

\* C14: two different stored keys with the same hash are held by different
\* nodes and have the same bucketDensity >= 2; bucketDensity(k) walks live nodes
\* only and is the number of stored keys that hash to k's bucket (0 for an
\* empty bucket); a write through m[k] changes the value of no other key.
C14_CollidingKeysAreSeparate ==
  /\ [](\A m \in Maps :
          (life[m] = "live" /\ ~ub) =>
            \A k \in Keys :
              /\ bucketDensity(Cur, m, k) =
                   IF InTable(Cur, m, hashThis(Cur, m, k))
                   THEN Len(ChainOf(Cur, m, hashThis(Cur, m, k))) ELSE 0
              /\ bucketDensity(Cur, m, k) = Cardinality(KeysInBucketOf(Cur, m, k))
              /\ \A k2 \in KeysInBucketOf(Cur, m, k) \ {k} :
                   k \in StoredKeys(Cur, m) =>
                     /\ NodeOf(Cur, m, k) # NodeOf(Cur, m, k2)
                     /\ bucketDensity(Cur, m, k) = bucketDensity(Cur, m, k2)
                     /\ bucketDensity(Cur, m, k) >= 2)
  /\ [][(lastOp'.op = "assign" /\ ~ub') =>
          \A k2 \in StoredKeys(Cur, lastOp'.m) \ {lastOp'.k} :
            ValueOf(Cur', lastOp'.m, k2) = ValueOf(Cur, lastOp'.m, k2)]_vars

\* C15: no operation has undefined behaviour (no double free, no read or write
\* of a released node); no bucket head and no link of a live node points to a
\* released node; erase(k) of a stored key releases exactly the node of k;
\* clear() and the destructor release exactly the nodes of the map.
C15_NodeOwnershipIsSafe ==
  /\ [](~ub)
  /\ [](Referenced(Cur) \cap FreeCells(nodes) = {})
  /\ [][(lastOp'.op = "erase" /\ lastOp'.had) =>
          FreeCells(nodes') =
            FreeCells(nodes) \cup {NodeOf(Cur, lastOp'.m, lastOp'.k)}]_vars
  /\ [][lastOp'.op \in {"clear", "destroy"} =>
          FreeCells(nodes') = FreeCells(nodes) \cup StoredCells(Cur, lastOp'.m)]_vars

\* C16: in every live map, the head of a bucket is a live node without
\* parentNode, and the childNode of a node on a chain is a live node whose
\* parentNode is that node; after erase(k) of a stored key whose node has a
\* successor, the successor is still a node and its parentNode is what the
\* erased node's parentNode was.
C16_BackReferencesAreConsistent ==
  /\ [](\A m \in Maps :
          (life[m] = "live" /\ ~ub) =>
            /\ \A i \in Buckets(Cur, m) :
                 HeadAt(Cur, m, i) # 0 =>
                   /\ nodes[HeadAt(Cur, m, i)].live
                   /\ nodes[HeadAt(Cur, m, i)].parentNode = 0
            /\ \A n \in StoredCells(Cur, m) :
                 nodes[n].childNode # 0 =>
                   /\ nodes[nodes[n].childNode].live
                   /\ nodes[nodes[n].childNode].parentNode = n)
  /\ [][(/\ lastOp'.op = "erase" /\ lastOp'.had
          /\ nodes[NodeOf(Cur, lastOp'.m, lastOp'.k)].childNode # 0) =>
          LET erased == NodeOf(Cur, lastOp'.m, lastOp'.k)
              successor == nodes[erased].childNode
          IN /\ nodes'[successor].live
             /\ nodes'[successor].parentNode = nodes[erased].parentNode]_vars

\* The nodes a walk from c along childNode visits, live or not.
RECURSIVE walkedChain(_, _, _)
walkedChain(nd, c, fuel) ==
  IF c = 0 \/ fuel = 0 THEN <<>>
  ELSE <<c>> \o walkedChain(nd, nd[c].childNode, fuel - 1)

\* C17: in every live map, every node on the chain of bucket i is a live node
\* whose key hashes to i under the map's bucketCount(), and the keys of a
\* chain are pairwise distinct; operator[](k) of a key that was not stored
\* leaves a node that holds exactly k.
C17_ChainsHoldTheirOwnKeys ==
  /\ [](\A m \in Maps :
          (life[m] = "live" /\ ~ub) =>
            \A i \in Buckets(Cur, m) :
              LET ch == walkedChain(nodes, HeadAt(Cur, m, i), MaxNodes + 1) IN
              /\ \A j \in 1 .. Len(ch) :
                   /\ nodes[ch[j]].live
                   /\ hashThis(Cur, m, nodes[ch[j]].rawKey) = i
              /\ \A j1, j2 \in 1 .. Len(ch) :
                   j1 # j2 => nodes[ch[j1]].rawKey # nodes[ch[j2]].rawKey)
  /\ [][(lastOp'.op = "index" /\ ~ub' /\ NodeOf(Cur, lastOp'.m, lastOp'.k) = 0) =>
          /\ NodeOf(Cur', lastOp'.m, lastOp'.k) # 0
          /\ nodes'[NodeOf(Cur', lastOp'.m, lastOp'.k)].rawKey = lastOp'.k]_vars

\* Keys over the whole int32_t range.
HashKeys == {MinInt32, -257, -256, -2, -1, 0, 1, 2, 255, 256, 257, MaxInt32}

\* C18: in every live map and for every key k, negative ones and INT32_MIN
\* included, hashThis(k) is k modulo bucketCount() (the two's-complement
\* pattern of k masked with bucketCount() - 1, no sign normalisation), lies in
\* 0 .. bucketCount() - 1 and is a slot of the map's table.
C18_HashMasksTheBitPattern ==
  \A m \in Maps :
    life[m] = "live" =>
      \A k \in HashKeys :
        /\ bucketCount(Cur, m) >= 1
        /\ hashThis(Cur, m, k) = k % bucketCount(Cur, m)
        /\ hashThis(Cur, m, k) \in 0 .. (bucketCount(Cur, m) - 1)
        /\ InTable(Cur, m, hashThis(Cur, m, k))

\* C19: in every live map the walk from a bucket head along childNode visits
\* no node twice, ends, and takes exactly as many steps as the bucket's chain
\* has nodes; and every call of operator[], erase and clear comes to its end
\* with defined behaviour.
C19_WalksTerminate ==
  /\ [](\A m \in Maps :
          (life[m] = "live" /\ ~ub) =>
            \A i \in Buckets(Cur, m) :
              LET ch == walkedChain(nodes, HeadAt(Cur, m, i), MaxNodes + 1) IN
              /\ Len(ch) <= MaxNodes
              /\ \A j1, j2 \in 1 .. Len(ch) : j1 # j2 => ch[j1] # ch[j2]
              /\ Len(ch) = Len(ChainOf(Cur, m, i))
              /\ densityWalk(nodes, HeadAt(Cur, m, i), MaxNodes + 1) =
                   Len(ChainOf(Cur, m, i)))
  /\ [][lastOp'.op \in {"index", "assign", "erase", "clear"} => ~ub']_vars

====
